---- MODULE Spec2Model ----
(***************************************************************************)
(* Model of nullfs.py: the in-memory node table, the open-handle table and *)
(* the pyfuse3 request handlers of class NullFS.                           *)
(*                                                                         *)
(* An InodeData object is identified by its inode number (attr.st_ino is   *)
(* assigned once and never changes), so object references (parent_inode,   *)
(* child_inodes) are inode numbers here.                                   *)
(***************************************************************************)
EXTENDS Integers, Sequences, FiniteSets, TLC

VARIABLES
    inode_data,         \* self._inode_data: inode number -> InodeData
    free_inode,         \* next value of self._free_inode
    file_handle_inode,  \* self._file_handle_inode: file handle -> inode number
    free_file_handle,   \* next value of self._free_file_handle
    last,               \* the request just served and its reply, until the
                        \* reply is handed back to the transport
    n_setattr,          \* number of setattr requests that changed attributes
    tasks,              \* the transport's workers: the handler call each is in
    cpu                 \* the worker running between two suspension points

vars == <<inode_data, free_inode, file_handle_inode, free_file_handle, last,
          n_setattr, tasks, cpu>>

\* The four tables of a NullFS object.
tables == <<inode_data, free_inode, file_handle_inode, free_file_handle>>

-----------------------------------------------------------------------------
(* Bounds of the model *)

\* Number of nodes created over the life of the table (caps _free_inode).
MaxCreate == 2
\* Number of handles opened over the life of the table (caps _free_file_handle).
MaxOpen == 2
\* Number of setattr requests that change attributes.
MaxSetattr == 1
\* Number of workers the transport runs, each serving one request at a time.
MaxTasks == 2

-----------------------------------------------------------------------------
(* Constants of the program and of its libraries *)

ROOT_INODE == 1
O_RDONLY == 0
O_WRONLY == 1
O_RDWR == 2
O_ACCMODE == 3
O_APPEND == 1024
S_IFDIR == 16384
S_IFREG == 32768
BLKSIZE == 4096

OK == "OK"
ENOENT == "ENOENT"
EINVAL == "EINVAL"
ENOTEMPTY == "ENOTEMPTY"
EACCES == "EACCES"
ENOATTR == "ENOATTR"
KeyError == "KeyError"

\* Python's None, where an inode number or a handle is expected.
None == 0 - 1

-----------------------------------------------------------------------------
(* Inputs of the requests *)

Names == {"a", "b"}
\* mode of a create request: S_IFREG | 0o666
CreateModes == {S_IFREG + 438}
\* mode of a mkdir request: S_IFDIR | 0o777
MkdirModes == {S_IFDIR + 511}
\* ctx.uid, ctx.gid, ctx.umask of the requests (0o022)
CtxUid == 1000
CtxGid == 1000
CtxUmask == 18
\* time_ns() at the requests
Times == {5}
\* inode numbers a request may name: every one ever assigned, and one never assigned
InodeArgs == ROOT_INODE .. (ROOT_INODE + MaxCreate + 1)
\* file handles a request may name: every one ever assigned, and one never assigned
FhArgs == 0 .. MaxOpen
\* open flags: the three access modes, alone and with another flag bit, and
\* the access mode with both bits set
FlagArgs == {O_RDONLY, O_WRONLY, O_RDWR, O_ACCMODE, O_WRONLY + O_APPEND}
\* readdir start_id
StartArgs == (0 - 1) .. (MaxCreate + 1)
\* room of a readdir token, in entries
RoomArgs == 0..2
\* len(buf) of a write
BufLens == {0, 3}
\* SetattrFields of a setattr request: the flags that are set
AllFields == {"update_atime", "update_mtime", "update_ctime", "update_mode",
              "update_uid", "update_gid", "update_size"}
FieldArgs == {{}, {"update_size"}, AllFields}
\* the attr argument of a setattr request (only these fields are read)
AttrArgs == {[st_atime_ns |-> 7, st_mtime_ns |-> 8, st_ctime_ns |-> 9,
              st_mode |-> S_IFREG + 384, st_uid |-> 0, st_gid |-> 0,
              st_size |-> 3]}

-----------------------------------------------------------------------------
(* Helpers *)

Min(S) == CHOOSE x \in S : \A y \in S : x <= y

RECURSIVE BitAnd(_, _)
BitAnd(a, b) ==
    IF a = 0 \/ b = 0 THEN 0
    ELSE (a % 2) * (b % 2) + 2 * BitAnd(a \div 2, b \div 2)

\* The four tables as one value.
FS == [inode_data |-> inode_data,
       free_inode |-> free_inode,
       file_handle_inode |-> file_handle_inode,
       free_file_handle |-> free_file_handle]

\* A call that raises: tables untouched.
Raise(fs, e) == [fs |-> fs, err |-> e, ret |-> None]
\* A call that returns.
Return(fs, v) == [fs |-> fs, err |-> OK, ret |-> v]

-----------------------------------------------------------------------------
(* class InodeData *)

\* Variant of add_child: list.insert(0, ...) instead of list.append.
add_child_front(child_inodes, inode) == <<inode>> \o child_inodes

\* list.append
add_child(child_inodes, inode) == Append(child_inodes, inode)

\* list.remove: drops the first occurrence
remove_child(child_inodes, inode) ==
    LET at == {i \in 1..Len(child_inodes) : child_inodes[i] = inode}
        k == Min(at)
    IN [i \in 1..(Len(child_inodes) - 1) |->
            IF i < k THEN child_inodes[i] ELSE child_inodes[i + 1]]

\* Variant of get_child: the last child of that name in list order, or None.
get_child_last(idata, parent, name) ==
    LET kids == idata[parent].child_inodes
        at == {i \in 1..Len(kids) : idata[kids[i]].name = name}
    IN IF at = {} THEN None
       ELSE kids[CHOOSE i \in at : \A j \in at : j <= i]

\* first child of that name in list order, or None
get_child(idata, parent, name) ==
    LET kids == idata[parent].child_inodes
        at == {i \in 1..Len(kids) : idata[kids[i]].name = name}
    IN IF at = {} THEN None ELSE kids[Min(at)]

-----------------------------------------------------------------------------
(* Inode management *)

_get_inode(fs, inode) ==
    IF inode \notin DOMAIN fs.inode_data THEN Raise(fs, ENOENT)
    ELSE Return(fs, inode)

_get_inode_by_name(fs, parent_inode, name) ==
    IF parent_inode \notin DOMAIN fs.inode_data THEN Raise(fs, ENOENT)
    ELSE LET child == get_child(fs.inode_data, parent_inode, name)
         IN IF child = None THEN Raise(fs, ENOENT) ELSE Return(fs, child)

_get_inode_by_fh(fs, fh) ==
    IF fh \notin DOMAIN fs.file_handle_inode THEN Raise(fs, ENOENT)
    ELSE Return(fs, fs.file_handle_inode[fh])

\* The attributes the root takes from the mount directory's stat().
RootAttr ==
    [st_ino |-> ROOT_INODE, st_mode |-> S_IFDIR + 493, st_nlink |-> 2,
     st_uid |-> CtxUid, st_gid |-> CtxGid, st_rdev |-> 0, st_size |-> BLKSIZE,
     st_blksize |-> BLKSIZE, st_blocks |-> 8,
     st_atime_ns |-> 1, st_ctime_ns |-> 1, st_mtime_ns |-> 1,
     st_birthtime_ns |-> 0]

\* Variant of _set_root_inode: installs the root without looking at the table.
_set_root_inode_again(fs) ==
    Return([fs EXCEPT !.inode_data =
               (ROOT_INODE :> [name |-> "mount_dir", attr |-> RootAttr,
                               parent_inode |-> None, child_inodes |-> <<>>]) @@ @],
           ROOT_INODE)

_set_root_inode(fs) ==
    IF DOMAIN fs.inode_data # {} THEN Raise(fs, EINVAL)
    ELSE Return([fs EXCEPT !.inode_data =
                    ROOT_INODE :> [name |-> "mount_dir", attr |-> RootAttr,
                                   parent_inode |-> None, child_inodes |-> <<>>]],
                ROOT_INODE)

\* Variant of _add_inode: draws the inode number before it checks the parent.
_add_inode_count_first(fs, parent_inode, name, mode, uid, gid, umask, time_stamp_ns) ==
    LET ino == fs.free_inode
        drawn == [fs EXCEPT !.free_inode = ino + 1]
    IN IF parent_inode \notin DOMAIN fs.inode_data THEN Raise(drawn, ENOENT)
       ELSE
         LET attr == [st_ino |-> ino, st_mode |-> mode - BitAnd(mode, umask),
                      st_nlink |-> 0, st_uid |-> uid, st_gid |-> gid, st_rdev |-> 0,
                      st_size |-> 0, st_blksize |-> BLKSIZE, st_blocks |-> 0,
                      st_atime_ns |-> time_stamp_ns, st_ctime_ns |-> time_stamp_ns,
                      st_mtime_ns |-> time_stamp_ns, st_birthtime_ns |-> 0]
             node == [name |-> name, attr |-> attr,
                      parent_inode |-> parent_inode, child_inodes |-> <<>>]
             registered == (ino :> node) @@ fs.inode_data
         IN Return([drawn EXCEPT !.inode_data =
                       [registered EXCEPT ![parent_inode].child_inodes =
                                              add_child(@, ino)]],
                   ino)

\* Variant of _add_inode: numbers the node one above the highest number in
\* the table instead of with the value drawn from the counter.
_add_inode_reuse(fs, parent_inode, name, mode, uid, gid, umask, time_stamp_ns) ==
    LET p == _get_inode(fs, parent_inode) IN
    IF p.err # OK THEN p
    ELSE
      LET top == CHOOSE i \in DOMAIN fs.inode_data :
                     \A j \in DOMAIN fs.inode_data : j <= i
          ino == top + 1
          attr == [st_ino |-> ino, st_mode |-> mode - BitAnd(mode, umask),
                   st_nlink |-> 0, st_uid |-> uid, st_gid |-> gid, st_rdev |-> 0,
                   st_size |-> 0, st_blksize |-> BLKSIZE, st_blocks |-> 0,
                   st_atime_ns |-> time_stamp_ns, st_ctime_ns |-> time_stamp_ns,
                   st_mtime_ns |-> time_stamp_ns, st_birthtime_ns |-> 0]
          node == [name |-> name, attr |-> attr,
                   parent_inode |-> parent_inode, child_inodes |-> <<>>]
          registered == (ino :> node) @@ fs.inode_data
      IN Return([fs EXCEPT !.inode_data =
                    [registered EXCEPT ![parent_inode].child_inodes =
                                           add_child(@, ino)],
                 !.free_inode = @ + 1],
                ino)

\* Variant of _add_inode: refuses a name the parent already has.
_add_inode_unique(fs, parent_inode, name, mode, uid, gid, umask, time_stamp_ns) ==
    LET p == _get_inode(fs, parent_inode) IN
    IF p.err # OK THEN p
    ELSE IF get_child(fs.inode_data, parent_inode, name) # None
    THEN Raise(fs, "EEXIST")
    ELSE
      LET ino == fs.free_inode
          attr == [st_ino |-> ino, st_mode |-> mode - BitAnd(mode, umask),
                   st_nlink |-> 0, st_uid |-> uid, st_gid |-> gid, st_rdev |-> 0,
                   st_size |-> 0, st_blksize |-> BLKSIZE, st_blocks |-> 0,
                   st_atime_ns |-> time_stamp_ns, st_ctime_ns |-> time_stamp_ns,
                   st_mtime_ns |-> time_stamp_ns, st_birthtime_ns |-> 0]
          node == [name |-> name, attr |-> attr,
                   parent_inode |-> parent_inode, child_inodes |-> <<>>]
          registered == (ino :> node) @@ fs.inode_data
      IN Return([fs EXCEPT !.inode_data =
                    [registered EXCEPT ![parent_inode].child_inodes =
                                           add_child(@, ino)],
                 !.free_inode = ino + 1],
                ino)

_add_inode(fs, parent_inode, name, mode, uid, gid, umask, time_stamp_ns) ==
    LET p == _get_inode(fs, parent_inode) IN
    IF p.err # OK THEN p
    ELSE
      LET ino == fs.free_inode
          attr == [st_ino |-> ino, st_mode |-> mode - BitAnd(mode, umask),
                   st_nlink |-> 0, st_uid |-> uid, st_gid |-> gid, st_rdev |-> 0,
                   st_size |-> 0, st_blksize |-> BLKSIZE, st_blocks |-> 0,
                   st_atime_ns |-> time_stamp_ns, st_ctime_ns |-> time_stamp_ns,
                   st_mtime_ns |-> time_stamp_ns, st_birthtime_ns |-> 0]
          node == [name |-> name, attr |-> attr,
                   parent_inode |-> parent_inode, child_inodes |-> <<>>]
          registered == (ino :> node) @@ fs.inode_data
          attached == [registered EXCEPT ![parent_inode].child_inodes =
                                             add_child(@, ino)]
      IN Return([fs EXCEPT !.inode_data = attached, !.free_inode = ino + 1], ino)

\* The tables with node `child` detached from its parent and deleted.
Removed(fs, child) ==
    [fs EXCEPT !.inode_data =
        [i \in DOMAIN fs.inode_data \ {child} |->
            IF i = fs.inode_data[child].parent_inode
            THEN [fs.inode_data[i] EXCEPT !.child_inodes = remove_child(@, child)]
            ELSE fs.inode_data[i]]]

\* Variant of _remove_inode: no check for children.
_remove_inode_unchecked(fs, parent_inode, name) ==
    LET c == _get_inode_by_name(fs, parent_inode, name) IN
    IF c.err # OK THEN c ELSE Return(Removed(fs, c.ret), None)

\* Variant of _remove_inode: deletes the node from the table and leaves it
\* in its parent's child collection.
_remove_inode_attached(fs, parent_inode, name) ==
    LET c == _get_inode_by_name(fs, parent_inode, name) IN
    IF c.err # OK THEN c
    ELSE IF Len(fs.inode_data[c.ret].child_inodes) > 0 THEN Raise(fs, ENOTEMPTY)
    ELSE Return([fs EXCEPT !.inode_data =
                    [i \in DOMAIN fs.inode_data \ {c.ret} |-> fs.inode_data[i]]],
                None)

\* Variant of _remove_inode: refuses a target with zero or more children.
_remove_inode_refuse_all(fs, parent_inode, name) ==
    LET c == _get_inode_by_name(fs, parent_inode, name) IN
    IF c.err # OK THEN c
    ELSE IF Len(fs.inode_data[c.ret].child_inodes) >= 0 THEN Raise(fs, ENOTEMPTY)
    ELSE Return(Removed(fs, c.ret), None)

\* Variant of _remove_inode: also closes the handles opened on the node.
_remove_inode_purge(fs, parent_inode, name) ==
    LET c == _get_inode_by_name(fs, parent_inode, name) IN
    IF c.err # OK THEN c
    ELSE IF Len(fs.inode_data[c.ret].child_inodes) > 0 THEN Raise(fs, ENOTEMPTY)
    ELSE Return([Removed(fs, c.ret) EXCEPT !.file_handle_inode =
                    [h \in {x \in DOMAIN fs.file_handle_inode :
                                fs.file_handle_inode[x] # c.ret} |->
                        fs.file_handle_inode[h]]],
                None)

_remove_inode(fs, parent_inode, name) ==
    LET c == _get_inode_by_name(fs, parent_inode, name) IN
    IF c.err # OK THEN c
    ELSE
      LET child == fs.inode_data[c.ret]
      IN IF Len(child.child_inodes) > 0 THEN Raise(fs, ENOTEMPTY)
         ELSE Return(Removed(fs, c.ret), None)

\* Variant of _open: hands out the lowest handle that is not open.
_open_lowest_free(fs, inode) ==
    IF inode \notin DOMAIN fs.inode_data THEN Raise(fs, ENOENT)
    ELSE LET fh == Min({h \in 0..fs.free_file_handle :
                            h \notin DOMAIN fs.file_handle_inode})
         IN Return([fs EXCEPT !.file_handle_inode = (fh :> inode) @@ @,
                              !.free_file_handle = @ + 1],
                   fh)

\* Variant of _open: numbers the handle with the count of open handles.
_open_count(fs, inode) ==
    IF inode \notin DOMAIN fs.inode_data THEN Raise(fs, ENOENT)
    ELSE LET fh == Cardinality(DOMAIN fs.file_handle_inode)
         IN Return([fs EXCEPT !.file_handle_inode = (fh :> inode) @@ @,
                              !.free_file_handle = @ + 1],
                   fh)

_open(fs, inode) ==
    IF inode \notin DOMAIN fs.inode_data THEN Raise(fs, ENOENT)
    ELSE LET fh == fs.free_file_handle
         IN Return([fs EXCEPT !.file_handle_inode = (fh :> inode) @@ @,
                              !.free_file_handle = fh + 1],
                   fh)

_close(fs, fh) ==
    IF fh \notin DOMAIN fs.file_handle_inode THEN Raise(fs, ENOENT)
    ELSE Return([fs EXCEPT !.file_handle_inode =
                    [h \in DOMAIN fs.file_handle_inode \ {fh} |->
                        fs.file_handle_inode[h]]],
                None)

-----------------------------------------------------------------------------
(* pyfuse3.Operations: the request handlers, as functions of the tables *)

\* A reply that carries the attributes of node ino (a reference to its attr).
WithAttr(r, ino) ==
    IF r.err # OK THEN r
    ELSE [fs |-> r.fs, err |-> OK, ret |-> r.ret, attr |-> r.fs.inode_data[ino].attr]

create(fs, parent_inode, name, mode, uid, gid, umask, time_stamp_ns) ==
    LET a == _add_inode(fs, parent_inode, name, mode, uid, gid, umask, time_stamp_ns) IN
    IF a.err # OK THEN a
    ELSE WithAttr(_open(a.fs, a.ret), a.ret)

flush(fs, fh) == Return(fs, None)

forget(fs) == Return(fs, None)

getattr(fs, inode) == WithAttr(_get_inode(fs, inode), inode)

getxattr(fs, inode) == Raise(fs, ENOATTR)

lookup(fs, parent_inode, name) ==
    LET c == _get_inode_by_name(fs, parent_inode, name)
    IN WithAttr(c, c.ret)

mkdir(fs, parent_inode, name, mode, uid, gid, umask, time_stamp_ns) ==
    LET a == _add_inode(fs, parent_inode, name, mode, uid, gid, umask, time_stamp_ns)
    IN WithAttr(a, a.ret)

\* Variant of open: accepts any access mode that includes writing.
open_any_write(fs, inode, flags) ==
    IF BitAnd(flags, O_ACCMODE) # O_RDONLY THEN _open(fs, inode)
    ELSE Raise(fs, EACCES)

open(fs, inode, flags) ==
    IF BitAnd(flags, O_WRONLY) # 0 THEN _open(fs, inode)
    ELSE Raise(fs, EACCES)

opendir(fs, inode) == _open(fs, inode)

\* Variant of readdir: next_id is the index of the entry, not of the one
\* after it.
readdir_own_index(fs, fh, start_id, room) ==
    LET h == _get_inode_by_fh(fs, fh) IN
    IF h.err # OK THEN h
    ELSE IF h.ret \notin DOMAIN fs.inode_data THEN Raise(fs, KeyError)
    ELSE
      LET child_inodes == fs.inode_data[h.ret].child_inodes
          rest == IF 0 <= start_id /\ start_id < Len(child_inodes)
                  THEN Len(child_inodes) - start_id ELSE 0
          taken == IF rest < room THEN rest ELSE room
      IN [fs |-> fs, err |-> OK, ret |-> None,
          entries |-> [j \in 1..taken |->
                          [name |-> fs.inode_data[child_inodes[start_id + j]].name,
                           st_ino |-> child_inodes[start_id + j],
                           next_id |-> start_id + j - 1]],
          offered |-> IF rest <= room THEN rest ELSE room + 1]

\* Variant of readdir: start_id is not tested against zero, so that a
\* negative one is taken by the slice child_inodes[start_id:] from the end.
readdir_any_start(fs, fh, start_id, room) ==
    LET h == _get_inode_by_fh(fs, fh) IN
    IF h.err # OK THEN h
    ELSE IF h.ret \notin DOMAIN fs.inode_data THEN Raise(fs, KeyError)
    ELSE
      LET child_inodes == fs.inode_data[h.ret].child_inodes
          from == IF start_id >= 0 THEN start_id
                  ELSE IF Len(child_inodes) + start_id > 0
                       THEN Len(child_inodes) + start_id ELSE 0
          rest == IF start_id < Len(child_inodes)
                  THEN Len(child_inodes) - from ELSE 0
          taken == IF rest < room THEN rest ELSE room
      IN [fs |-> fs, err |-> OK, ret |-> None,
          entries |-> [j \in 1..taken |->
                          [name |-> fs.inode_data[child_inodes[from + j]].name,
                           st_ino |-> child_inodes[from + j],
                           next_id |-> start_id + j]],
          offered |-> IF rest <= room THEN rest ELSE room + 1]

\* readdir_reply: the token has room for `room` more entries; the entries
\* offered while there is room are accepted, the next one is refused.
\* entries: the accepted ones; offered: the number of readdir_reply calls.
readdir(fs, fh, start_id, room) ==
    LET h == _get_inode_by_fh(fs, fh) IN
    IF h.err # OK THEN h
    ELSE IF h.ret \notin DOMAIN fs.inode_data THEN Raise(fs, KeyError)
    ELSE
      LET child_inodes == fs.inode_data[h.ret].child_inodes
          rest == IF 0 <= start_id /\ start_id < Len(child_inodes)
                  THEN Len(child_inodes) - start_id ELSE 0
          taken == IF rest < room THEN rest ELSE room
      IN [fs |-> fs, err |-> OK, ret |-> None,
          entries |-> [j \in 1..taken |->
                          [name |-> fs.inode_data[child_inodes[start_id + j]].name,
                           st_ino |-> child_inodes[start_id + j],
                           next_id |-> start_id + j]],
          offered |-> IF rest <= room THEN rest ELSE room + 1]

release(fs, fh) == _close(fs, fh)

releasedir(fs, fh) == _close(fs, fh)

rmdir(fs, parent_inode, name) == _remove_inode(fs, parent_inode, name)

unlink(fs, parent_inode, name) == _remove_inode(fs, parent_inode, name)

\* Variant of write: records the length written as the size of the node.
write_grow(fs, fh, buflen) ==
    LET h == _get_inode_by_fh(fs, fh)
    IN IF h.err # OK THEN h
       ELSE IF h.ret \notin DOMAIN fs.inode_data THEN Return(fs, buflen)
       ELSE Return([fs EXCEPT !.inode_data[h.ret].attr.st_size = buflen], buflen)

write(fs, fh, buflen) ==
    LET h == _get_inode_by_fh(fs, fh)
    IN IF h.err # OK THEN h ELSE Return(fs, buflen)

\* Variant of setattr: stamps the change time whether flagged or not.
setattr_touch_ctime(fs, inode, attr, fields) ==
    LET n == _get_inode(fs, inode) IN
    IF n.err # OK THEN n
    ELSE
      LET old == fs.inode_data[inode].attr
          a1 == IF "update_atime" \in fields
                THEN [old EXCEPT !.st_atime_ns = attr.st_atime_ns] ELSE old
          a2 == IF "update_mtime" \in fields
                THEN [a1 EXCEPT !.st_mtime_ns = attr.st_mtime_ns] ELSE a1
          a3 == [a2 EXCEPT !.st_ctime_ns = attr.st_ctime_ns]
          a4 == IF "update_mode" \in fields
                THEN [a3 EXCEPT !.st_mode = attr.st_mode] ELSE a3
          a5 == IF "update_uid" \in fields
                THEN [a4 EXCEPT !.st_uid = attr.st_uid] ELSE a4
          a6 == IF "update_gid" \in fields
                THEN [a5 EXCEPT !.st_gid = attr.st_gid] ELSE a5
          a7 == IF "update_size" \in fields
                THEN [a6 EXCEPT !.st_size = attr.st_size] ELSE a6
      IN WithAttr(Return([fs EXCEPT !.inode_data[inode].attr = a7], None), inode)

setattr(fs, inode, attr, fields) ==
    LET n == _get_inode(fs, inode) IN
    IF n.err # OK THEN n
    ELSE
      LET old == fs.inode_data[inode].attr
          a1 == IF "update_atime" \in fields
                THEN [old EXCEPT !.st_atime_ns = attr.st_atime_ns] ELSE old
          a2 == IF "update_mtime" \in fields
                THEN [a1 EXCEPT !.st_mtime_ns = attr.st_mtime_ns] ELSE a1
          a3 == IF "update_ctime" \in fields
                THEN [a2 EXCEPT !.st_ctime_ns = attr.st_ctime_ns] ELSE a2
          a4 == IF "update_mode" \in fields
                THEN [a3 EXCEPT !.st_mode = attr.st_mode] ELSE a3
          a5 == IF "update_uid" \in fields
                THEN [a4 EXCEPT !.st_uid = attr.st_uid] ELSE a4
          a6 == IF "update_gid" \in fields
                THEN [a5 EXCEPT !.st_gid = attr.st_gid] ELSE a5
          a7 == IF "update_size" \in fields
                THEN [a6 EXCEPT !.st_size = attr.st_size] ELSE a6
      IN WithAttr(Return([fs EXCEPT !.inode_data[inode].attr = a7], None), inode)

-----------------------------------------------------------------------------
(* The state machine: one action per request handler *)

Reply(r) == [x \in DOMAIN r \ {"fs"} |-> r[x]]

\* The counters stay within the bounds of the model.
WithinBounds(fs) ==
    /\ fs.free_inode <= ROOT_INODE + 1 + MaxCreate
    /\ fs.free_file_handle <= MaxOpen

Install(fs) ==
    /\ WithinBounds(fs)
    /\ inode_data' = fs.inode_data
    /\ free_inode' = fs.free_inode
    /\ file_handle_inode' = fs.file_handle_inode
    /\ free_file_handle' = fs.free_file_handle

\* No request is being served: the transport may dispatch the next one.
Idle == [op |-> "idle"]

\* Serve a request: the handler runs to completion (requests are dispatched
\* one at a time and no handler suspends), leaving its reply.
Serve(req, r) ==
    /\ last = Idle
    /\ Install(r.fs)
    /\ last' = req @@ Reply(r)
    /\ n_setattr' = IF req.op = "setattr" /\ r.fs # FS THEN n_setattr + 1
                    ELSE n_setattr
    /\ n_setattr' <= MaxSetattr
    /\ UNCHANGED <<tasks, cpu>>

\* A worker that is not in a handler call.
NoTask == [pc |-> "none", op |-> "none", ino |-> None, name |-> "", fh |-> None,
           node |-> None]
TaskIds == 1..MaxTasks

Init ==
    LET r == _set_root_inode([inode_data |-> <<>>, free_inode |-> ROOT_INODE + 1,
                              file_handle_inode |-> <<>>, free_file_handle |-> 0])
    IN /\ inode_data = r.fs.inode_data
       /\ free_inode = r.fs.free_inode
       /\ file_handle_inode = r.fs.file_handle_inode
       /\ free_file_handle = r.fs.free_file_handle
       /\ last = [op |-> "init"] @@ Reply(r)
       /\ n_setattr = 0
       /\ tasks = [t \in TaskIds |-> NoTask]
       /\ cpu = None

Create ==
    \E parent_inode \in InodeArgs, name \in Names, mode \in CreateModes, t \in Times :
        Serve([op |-> "create", ino |-> parent_inode, name |-> name, mode |-> mode],
              create(FS, parent_inode, name, mode, CtxUid, CtxGid, CtxUmask, t))

Flush ==
    \E fh \in FhArgs : Serve([op |-> "flush", fh |-> fh], flush(FS, fh))

Forget == Serve([op |-> "forget"], forget(FS))

Getattr ==
    \E inode \in InodeArgs : Serve([op |-> "getattr", ino |-> inode], getattr(FS, inode))

Getxattr ==
    \E inode \in InodeArgs : Serve([op |-> "getxattr", ino |-> inode], getxattr(FS, inode))

Lookup ==
    \E parent_inode \in InodeArgs, name \in Names :
        Serve([op |-> "lookup", ino |-> parent_inode, name |-> name],
              lookup(FS, parent_inode, name))

Mkdir ==
    \E parent_inode \in InodeArgs, name \in Names, mode \in MkdirModes, t \in Times :
        Serve([op |-> "mkdir", ino |-> parent_inode, name |-> name, mode |-> mode],
              mkdir(FS, parent_inode, name, mode, CtxUid, CtxGid, CtxUmask, t))

Open ==
    \E inode \in InodeArgs, flags \in FlagArgs :
        Serve([op |-> "open", ino |-> inode, flags |-> flags], open(FS, inode, flags))

Opendir ==
    \E inode \in InodeArgs : Serve([op |-> "opendir", ino |-> inode], opendir(FS, inode))

Readdir ==
    \E fh \in FhArgs, start_id \in StartArgs, room \in RoomArgs :
        Serve([op |-> "readdir", fh |-> fh, start_id |-> start_id, room |-> room],
              readdir(FS, fh, start_id, room))

Release ==
    \E fh \in FhArgs : Serve([op |-> "release", fh |-> fh], release(FS, fh))

Releasedir ==
    \E fh \in FhArgs : Serve([op |-> "releasedir", fh |-> fh], releasedir(FS, fh))

Rmdir ==
    \E parent_inode \in InodeArgs, name \in Names :
        Serve([op |-> "rmdir", ino |-> parent_inode, name |-> name],
              rmdir(FS, parent_inode, name))

Setattr ==
    \E inode \in InodeArgs, attr \in AttrArgs, fields \in FieldArgs :
        Serve([op |-> "setattr", ino |-> inode, fields |-> fields],
              setattr(FS, inode, attr, fields))

Unlink ==
    \E parent_inode \in InodeArgs, name \in Names :
        Serve([op |-> "unlink", ino |-> parent_inode, name |-> name],
              unlink(FS, parent_inode, name))

Write ==
    \E fh \in FhArgs, buflen \in BufLens :
        Serve([op |-> "write", fh |-> fh, buflen |-> buflen], write(FS, fh, buflen))

\* The root initialisation, called again on the constructed table.
SetRootInode ==
    Serve([op |-> "_set_root_inode"], _set_root_inode(FS))

\* The reply goes back to the transport.
Done ==
    /\ last # Idle
    /\ last' = Idle
    /\ UNCHANGED <<tables, n_setattr, tasks, cpu>>

Next ==
    \/ Done
    \/ Create \/ Flush \/ Forget \/ Getattr \/ Getxattr \/ Lookup \/ Mkdir
    \/ Open \/ Opendir \/ Readdir \/ Release \/ Releasedir \/ Rmdir
    \/ Setattr \/ Unlink \/ Write
    \/ SetRootInode

Spec == Init /\ [][Next]_vars

-----------------------------------------------------------------------------
(* Handlers as coroutines: the transport's workers each call the handler of
   the request they received; the calls run on one thread, and the thread
   passes from one call to another only where the running one suspends. *)

\* The places of a handler at which it suspends (an await expression).
\* The handlers of NullFS hold none.
Checkpoints_after_insert == {"registered"}

Checkpoints == {}

\* The requests a worker may receive.
ConcRequests ==
    {[pc |-> "ready", op |-> o, ino |-> i, name |-> n, fh |-> None, node |-> None] :
        o \in {"create", "mkdir", "unlink", "lookup"}, i \in InodeArgs, n \in Names}
    \cup
    {[pc |-> "ready", op |-> o, ino |-> i, name |-> "", fh |-> None, node |-> None] :
        o \in {"getattr", "opendir"}, i \in InodeArgs}
    \cup
    {[pc |-> "ready", op |-> "readdir", ino |-> None, name |-> "", fh |-> h,
      node |-> None] : h \in FhArgs}

\* Worker t may run: the thread is free, or t holds it.
Runnable(t) == cpu \in {None, t}

\* Worker t goes on to place pc of its handler, and keeps the thread unless
\* it suspends there.
Goto(t, pc, node) ==
    /\ tasks' = [tasks EXCEPT ![t].pc = pc, ![t].node = node]
    /\ cpu' = IF pc \in Checkpoints THEN None ELSE t

\* The handler of worker t returns or raises: the reply goes out and the
\* worker waits for its next request.
Finish(t) ==
    /\ tasks' = [tasks EXCEPT ![t] = NoTask]
    /\ cpu' = None

\* A worker receives a request and is about to call its handler.
Dispatch(t) ==
    /\ cpu = None
    /\ tasks[t].pc = "none"
    /\ \E req \in ConcRequests : tasks' = [tasks EXCEPT ![t] = req]
    /\ UNCHANGED <<tables, cpu, last, n_setattr>>

\* create, mkdir: _add_inode up to the registration of the new node in
\* self._inode_data.
AddRegister(t) ==
    LET k == tasks[t]
        mode == IF k.op = "create" THEN CHOOSE m \in CreateModes : TRUE
                ELSE CHOOSE m \in MkdirModes : TRUE
        a == _add_inode(FS, k.ino, k.name, mode, CtxUid, CtxGid, CtxUmask,
                        CHOOSE ts \in Times : TRUE)
    IN /\ Runnable(t)
       /\ k.pc = "ready"
       /\ k.op \in {"create", "mkdir"}
       /\ IF a.err # OK
          THEN Finish(t) /\ UNCHANGED tables
          ELSE /\ WithinBounds(a.fs)
               /\ k.op = "create" => free_file_handle < MaxOpen
               /\ inode_data' = [a.fs.inode_data EXCEPT ![k.ino] = inode_data[k.ino]]
               /\ free_inode' = a.fs.free_inode
               /\ UNCHANGED <<file_handle_inode, free_file_handle>>
               /\ Goto(t, "registered", a.ret)
       /\ UNCHANGED <<last, n_setattr>>

\* create, mkdir: parent_inode_data.add_child(inode_data). mkdir returns;
\* create goes on to _open.
AddAttach(t) ==
    LET k == tasks[t] IN
    /\ Runnable(t)
    /\ k.pc = "registered"
    /\ inode_data' = IF k.ino \in DOMAIN inode_data
                     THEN [inode_data EXCEPT ![k.ino].child_inodes = add_child(@, k.node)]
                     ELSE inode_data
    /\ IF k.op = "create" THEN Goto(t, "attached", k.node) ELSE Finish(t)
    /\ UNCHANGED <<free_inode, file_handle_inode, free_file_handle, last, n_setattr>>

\* create: _open on the new node, and the return.
CreateOpen(t) ==
    LET k == tasks[t]
        r == _open(FS, k.node)
    IN /\ Runnable(t)
       /\ k.pc = "attached"
       /\ WithinBounds(r.fs)
       /\ file_handle_inode' = r.fs.file_handle_inode
       /\ free_file_handle' = r.fs.free_file_handle
       /\ Finish(t)
       /\ UNCHANGED <<inode_data, free_inode, last, n_setattr>>

\* unlink: _remove_inode up to parent_inode.remove_child(child_inode_data).
RemoveDetach(t) ==
    LET k == tasks[t]
        c == _get_inode_by_name(FS, k.ino, k.name)
    IN /\ Runnable(t)
       /\ k.pc = "ready"
       /\ k.op = "unlink"
       /\ IF c.err # OK \/ Len(inode_data[c.ret].child_inodes) > 0
          THEN Finish(t) /\ UNCHANGED tables
          ELSE /\ inode_data' = [inode_data EXCEPT ![k.ino].child_inodes =
                                                       remove_child(@, c.ret)]
               /\ UNCHANGED <<free_inode, file_handle_inode, free_file_handle>>
               /\ Goto(t, "detached", c.ret)
       /\ UNCHANGED <<last, n_setattr>>

\* unlink: del self._inode_data[...], and the return.
RemoveDelete(t) ==
    LET k == tasks[t] IN
    /\ Runnable(t)
    /\ k.pc = "detached"
    /\ inode_data' = [i \in DOMAIN inode_data \ {k.node} |-> inode_data[i]]
    /\ Finish(t)
    /\ UNCHANGED <<free_inode, file_handle_inode, free_file_handle, last, n_setattr>>

\* opendir: one call of _open.
OpendirCall(t) ==
    LET k == tasks[t]
        r == opendir(FS, k.ino)
    IN /\ Runnable(t)
       /\ k.pc = "ready"
       /\ k.op = "opendir"
       /\ WithinBounds(r.fs)
       /\ file_handle_inode' = r.fs.file_handle_inode
       /\ free_file_handle' = r.fs.free_file_handle
       /\ Finish(t)
       /\ UNCHANGED <<inode_data, free_inode, last, n_setattr>>

\* lookup, getattr, readdir: they read the tables and return.
Observers == {"lookup", "getattr", "readdir"}

Observe(t) ==
    /\ Runnable(t)
    /\ tasks[t].pc = "ready"
    /\ tasks[t].op \in Observers
    /\ Finish(t)
    /\ UNCHANGED <<tables, last, n_setattr>>

NextConc ==
    \E t \in TaskIds :
        \/ Dispatch(t)
        \/ AddRegister(t)
        \/ AddAttach(t)
        \/ CreateOpen(t)
        \/ RemoveDetach(t)
        \/ RemoveDelete(t)
        \/ OpendirCall(t)
        \/ Observe(t)

SpecConc == Init /\ [][NextConc]_vars

-----------------------------------------------------------------------------
(* Properties *)

Live == DOMAIN inode_data
Children(i) == inode_data[i].child_inodes
Range(f) == {f[x] : x \in DOMAIN f}
Removes == {"rmdir", "unlink"}

\* C1: a remove request (rmdir or unlink) whose resolved target has a child
\* fails with ENOTEMPTY and removes nothing; one whose resolved target has
\* no child succeeds, and the target is then absent from the node table and
\* from its parent's child collection.
C1_RemoveNonEmpty ==
    [][last'.op \in Removes =>
        LET c == _get_inode_by_name(FS, last'.ino, last'.name) IN
        c.err = OK =>
            IF Len(Children(c.ret)) > 0
            THEN last'.err = ENOTEMPTY /\ UNCHANGED tables
            ELSE /\ last'.err = OK
                 /\ c.ret \notin DOMAIN inode_data'
                 /\ last'.ino \in DOMAIN inode_data'
                 /\ c.ret \notin Range(inode_data'[last'.ino].child_inodes)
                 /\ c.ret \in Range(Children(last'.ino))]_vars

\* A remove was just refused on a node that has a child.
C1_Witness ==
    /\ last.op \in Removes
    /\ last.err = ENOTEMPTY
    /\ \E i \in Live : Len(Children(i)) > 0 /\ inode_data[i].name = last.name

\* C2: every node but the root has its parent in the node table, and that
\* parent's child collection holds the node exactly once; every entry of
\* every child collection is a node of the node table.
C2_TreeConsistent ==
    /\ \A i \in Live \ {ROOT_INODE} :
          LET p == inode_data[i].parent_inode IN
          /\ p \in Live
          /\ Cardinality({k \in 1..Len(Children(p)) : Children(p)[k] = i}) = 1
    /\ \A p \in Live : Range(Children(p)) \subseteq Live

\* A node remains below the root after a remove succeeded.
C2_Witness ==
    /\ last.op \in Removes
    /\ last.err = OK
    /\ \E i \in Live : inode_data[i].parent_inode = ROOT_INODE

\* C3: a request that returns an error leaves the node table, the child
\* collections, the attributes, the handle table and both counters as they
\* were.
C3_FailureAtomic ==
    [][(last'.op # "idle" /\ last'.err # OK) => UNCHANGED tables]_vars

\* A create was just refused for an unknown parent, after another node was
\* created.
C3_Witness ==
    /\ last.op = "create"
    /\ last.err = ENOENT
    /\ free_inode > ROOT_INODE + 1

\* The reply to lookup(p, n) after create or mkdir (h) of n under p and then
\* unlink or rmdir (d) of n under p, from the present tables.
RoundTrip(h, d, p, n) ==
    LET a == IF h = "create"
             THEN create(FS, p, n, S_IFREG + 438, CtxUid, CtxGid, CtxUmask, 5)
             ELSE mkdir(FS, p, n, S_IFDIR + 511, CtxUid, CtxGid, CtxUmask, 5)
        r == IF d = "unlink" THEN unlink(a.fs, p, n) ELSE rmdir(a.fs, p, n)
    IN [created |-> a.err, removed |-> r.err, lookup |-> lookup(r.fs, p, n).err]

\* C4 as stated: in any state where a request can be dispatched, creating a child of any name under an existing parent and
\* then removing that name under that parent leaves a table where looking
\* the name up under that parent fails with ENOENT.
C4_RoundTripAnyName ==
    last = Idle =>
    \A h \in {"create", "mkdir"}, d \in Removes, p \in Live, n \in Names :
        RoundTrip(h, d, p, n).lookup = ENOENT

\* C4, amended: the same, for a name the parent has no child of before the
\* create; both steps succeed and the lookup fails with ENOENT.
C4_RoundTripFreshName ==
    last = Idle =>
    \A h \in {"create", "mkdir"}, d \in Removes, p \in Live, n \in Names :
        get_child(inode_data, p, n) = None =>
            RoundTrip(h, d, p, n) = [created |-> OK, removed |-> OK, lookup |-> ENOENT]

\* The node created last was removed, the remove just served succeeded and
\* its name no longer resolves under its parent.
C4_Witness ==
    /\ last.op \in Removes
    /\ last.err = OK
    /\ free_inode - 1 \notin Live
    /\ lookup(FS, last.ino, last.name).err = ENOENT

Closes == {"release", "releasedir"}
\* The handles that were open once and are closed.
Closed == (0 .. (free_file_handle - 1)) \ DOMAIN file_handle_inode

\* C5: a handle returned by open, opendir or create resolves to the node it
\* was opened on; an open handle keeps its node until a release or
\* releasedir closes it; a closed handle is never open again, and resolving
\* it, writing or reading a directory through it and closing it again fail
\* with ENOENT.
C5_HandleLifecycle ==
    [][/\ (last'.op \in {"open", "opendir"} /\ last'.err = OK) =>
            /\ last'.ret \in DOMAIN file_handle_inode'
            /\ file_handle_inode'[last'.ret] = last'.ino
       /\ (last'.op = "create" /\ last'.err = OK) =>
            /\ last'.ret \in DOMAIN file_handle_inode'
            /\ file_handle_inode'[last'.ret] = last'.attr.st_ino
       /\ \A h \in DOMAIN file_handle_inode :
            IF last'.op \in Closes /\ last'.fh = h
            THEN last'.err = OK /\ h \notin DOMAIN file_handle_inode'
            ELSE /\ h \in DOMAIN file_handle_inode'
                 /\ file_handle_inode'[h] = file_handle_inode[h]
       /\ \A h \in Closed :
            /\ h \notin DOMAIN file_handle_inode'
            /\ _get_inode_by_fh(FS, h).err = ENOENT
            /\ (last'.op \in Closes \cup {"write", "readdir"} /\ last'.fh = h) =>
                  last'.err = ENOENT]_vars

\* A handle that was open and then closed was just closed a second time.
C5_Witness ==
    /\ last.op \in Closes
    /\ last.err = ENOENT
    /\ last.fh \in Closed

\* C6: a remove request never changes the handle table; a handle whose node
\* was removed is still open, still resolves to that node's number, and a
\* node-table get of that number fails with ENOENT.
C6_StaleHandle ==
    [][/\ last'.op \in Removes =>
            /\ file_handle_inode' = file_handle_inode
            /\ free_file_handle' = free_file_handle
       /\ \A h \in DOMAIN file_handle_inode :
            file_handle_inode[h] \notin Live =>
                /\ _get_inode_by_fh(FS, h) = Return(FS, file_handle_inode[h])
                /\ _get_inode(FS, file_handle_inode[h]).err = ENOENT
                /\ (last'.op = "getattr" /\ last'.ino = file_handle_inode[h]) =>
                      last'.err = ENOENT]_vars

\* A remove just succeeded on a node that a handle is open on.
C6_Witness ==
    /\ last.op \in Removes
    /\ last.err = OK
    /\ \E h \in DOMAIN file_handle_inode :
          /\ file_handle_inode[h] \notin Live
          /\ file_handle_inode[h] = free_inode - 1

\* C7: a readdir on a handle that is open and whose node was removed after
\* the handle was opened fails with ENOENT and in no other way.
C7_StaleReaddirNotFound ==
    (/\ last.op = "readdir"
     /\ last.fh \in DOMAIN file_handle_inode
     /\ file_handle_inode[last.fh] \notin Live) => last.err = ENOENT

\* The calls of one listing of the directory behind handle fh, from
\* start_id pos on: call k has room for rooms[k] entries and the next call
\* starts at the next_id of the last entry accepted.
\* got: the inode numbers delivered; eof: a call ended with no entry refused.
RECURSIVE Listing(_, _, _, _)
Listing(fs, fh, pos, rooms) ==
    IF rooms = <<>> THEN [got |-> <<>>, pos |-> pos, eof |-> FALSE]
    ELSE LET r == readdir(fs, fh, pos, Head(rooms))
             n == Len(r.entries)
             more == Listing(fs, fh, IF n = 0 THEN pos ELSE r.entries[n].next_id,
                             Tail(rooms))
         IN [got |-> [j \in 1..n |-> r.entries[j].st_ino] \o more.got,
             pos |-> more.pos,
             eof |-> more.eof \/ r.offered = n]

\* Number of calls of a listing
ListingCalls == 1..3
RoomSeqs == UNION {[1..k -> RoomArgs] : k \in ListingCalls}

\* C8: over an unchanged child collection, a listing that starts at 0 and
\* resumes at the next_id of the last accepted entry delivers the children
\* in creation order, none skipped and none twice, wherever the caller runs
\* out of room: what was delivered is the first pos children, all of them
\* once a call ends with no refusal or once as many calls with room were
\* made as there are children.
C8_ResumableListing ==
    last = Idle =>
    \A fh \in DOMAIN file_handle_inode :
        file_handle_inode[fh] \in Live =>
            LET kids == Children(file_handle_inode[fh]) IN
            \A rooms \in RoomSeqs :
                LET l == Listing(FS, fh, 0, rooms) IN
                /\ l.pos = Len(l.got)
                /\ l.pos <= Len(kids)
                /\ l.got = SubSeq(kids, 1, l.pos)
                /\ l.eof => l.got = kids
                /\ ((\A k \in DOMAIN rooms : rooms[k] >= 1) /\ Len(rooms) >= Len(kids))
                      => l.got = kids

\* A resumed readdir call (start_id 1, the next_id of the first entry) just
\* delivered the second child of a directory.
C8_Witness ==
    /\ last.op = "readdir"
    /\ last.err = OK
    /\ last.start_id = 1
    /\ Len(last.entries) = 1
    /\ last.entries[1].st_ino = Children(file_handle_inode[last.fh])[2]
    /\ last.entries[1].next_id = 2

C10_WriteDiscards ==
    [][last'.op = "write" =>
        /\ UNCHANGED tables
        /\ IF last'.fh \in DOMAIN file_handle_inode
           THEN last'.err = OK /\ last'.ret = last'.buflen
           ELSE last'.err = ENOENT]_vars

\* Three bytes were just written through a handle on a node of size 0.
C10_Witness ==
    /\ last.op = "write"
    /\ last.err = OK
    /\ last.ret = 3
    /\ file_handle_inode[last.fh] \in Live
    /\ inode_data[file_handle_inode[last.fh]].attr.st_size = 0

\* C11: the constructed table holds the root alone, without parent and
\* without child; a second root initialisation is refused with EINVAL; and
\* in every reachable state exactly one node has no parent: the root, under
\* the reserved inode number, still in the table whatever was requested.
C11_RootUnique ==
    /\ {i \in Live : inode_data[i].parent_inode = None} = {ROOT_INODE}
    /\ inode_data[ROOT_INODE].attr.st_ino = ROOT_INODE
    /\ last.op = "init" =>
          /\ last.err = OK
          /\ Live = {ROOT_INODE}
          /\ Children(ROOT_INODE) = <<>>
    /\ last.op = "_set_root_inode" => last.err = EINVAL

\* A second initialisation was refused on a table that has grown and shrunk.
C11_Witness ==
    /\ last.op = "_set_root_inode"
    /\ last.err = EINVAL
    /\ Cardinality(Live) > 1
    /\ Cardinality(Live) < free_inode - ROOT_INODE

Creates == {"create", "mkdir"}

\* C12: inode numbers are never reused. The counter starts one above the
\* root; a successful create or mkdir numbers its node with the counter's
\* value, above every number in the table, and advances the counter by one;
\* no other step (a failed creation, a remove, any other request) moves the
\* counter. So the k-th successful creation gets ROOT_INODE + k, above every
\* number given out before, removed nodes' numbers included.
C12_InodeNeverReused ==
    /\ free_inode = ROOT_INODE + 1
    /\ [][IF last'.op \in Creates /\ last'.err = OK
          THEN /\ last'.attr.st_ino = free_inode
               /\ free_inode' = free_inode + 1
               /\ \A i \in Live : i < free_inode
               /\ Live' = Live \cup {free_inode}
          ELSE free_inode' = free_inode]_vars

\* The second creation after the first node was removed: it got the next
\* number, not the freed one.
C12_Witness ==
    /\ last.op \in Creates
    /\ last.err = OK
    /\ last.attr.st_ino = ROOT_INODE + 2
    /\ ROOT_INODE + 1 \notin Live

Opens == {"open", "opendir", "create"}

\* C13: file handles are numbered in sequence from zero and are unique among
\* the open ones. The first handle is 0; a successful open, opendir or create
\* returns the counter's value, which is above every open handle, hence not
\* open; it advances the counter by one, binds the new handle and leaves
\* every binding that was there as it was. No other step moves the counter.
C13_HandleSequential ==
    /\ free_file_handle = 0
    /\ DOMAIN file_handle_inode = {}
    /\ [][IF last'.op \in Opens /\ last'.err = OK
          THEN /\ last'.ret = free_file_handle
               /\ free_file_handle' = free_file_handle + 1
               /\ \A h \in DOMAIN file_handle_inode : h < last'.ret
               /\ DOMAIN file_handle_inode' =
                      DOMAIN file_handle_inode \cup {last'.ret}
               /\ \A h \in DOMAIN file_handle_inode :
                      file_handle_inode'[h] = file_handle_inode[h]
          ELSE free_file_handle' = free_file_handle]_vars

\* A second handle was opened while the first is still open, on another node.
C13_Witness ==
    /\ last.op \in Opens
    /\ last.err = OK
    /\ last.ret = 1
    /\ 0 \in DOMAIN file_handle_inode
    /\ file_handle_inode[0] # file_handle_inode[1]

\* A handler call that is between the statements of a compound operation.
Mid(k) == k.pc \in {"registered", "attached", "detached"}

\* Some node is in the node table and not in its parent's child list.
Unattached ==
    \E i \in Live :
        /\ inode_data[i].parent_inode # None
        /\ \/ inode_data[i].parent_inode \notin Live
           \/ i \notin Range(Children(inode_data[i].parent_inode))

\* Worker t executes a statement of its handler.
Runs(t) == tasks[t].pc # "none" /\ tasks'[t] # tasks[t]

\* C14: compound operations are atomic for the other requests, whatever the
\* interleaving of the handler calls. Whenever a handler executes, no other
\* call is between the statements of a compound operation (a node registered
\* and not yet attached, a created file whose handle is not yet registered,
\* a node detached and not yet deleted), and a handler that starts (a
\* readdir, lookup or getattr in particular) finds every node of the table
\* in its parent's child list.
C14_CompoundAtomic ==
    [][\A t \in TaskIds :
          Runs(t) =>
              /\ \A u \in TaskIds \ {t} : ~Mid(tasks[u])
              /\ tasks[t].pc = "ready" => ~Unattached]_vars

\* A create is between _add_inode and _open while a reading request waits
\* for its handler to be called.
C14_Witness ==
    \E t, u \in TaskIds :
        /\ tasks[t].op = "create"
        /\ tasks[t].pc = "attached"
        /\ tasks[u].pc = "ready"
        /\ tasks[u].op \in Observers
        /\ cpu = t

\* The remove request op (rmdir or unlink) on the tables fs.
Remove(fs, op, parent_inode, name) ==
    IF op = "rmdir" THEN rmdir(fs, parent_inode, name)
    ELSE unlink(fs, parent_inode, name)

\* The tables fs can be brought to the root alone by remove requests that all
\* succeed and each take one node away.
RECURSIVE CanEmpty(_)
CanEmpty(fs) ==
    \/ DOMAIN fs.inode_data = {ROOT_INODE}
    \/ \E op \in Removes, p \in DOMAIN fs.inode_data, n \in Names :
          LET r == Remove(fs, op, p, n)
          IN /\ r.err = OK
             /\ Cardinality(DOMAIN r.fs.inode_data) =
                    Cardinality(DOMAIN fs.inode_data) - 1
             /\ CanEmpty(r.fs)

\* C15: nested removal. In any state between two requests, a remove whose
\* target still has a child below it is refused with ENOTEMPTY and changes
\* nothing, so a chain root/d1/.../dk/file can only go bottom-up; and the
\* tree can be brought back to the root alone by removes that each succeed,
\* one per node other than the root.
C15_NestedRemoval ==
    last = Idle =>
        /\ \A op \in Removes, p \in Live, n \in Names :
              LET kid == get_child(inode_data, p, n)
                  r == Remove(FS, op, p, n)
              IN (kid # None /\ Children(kid) # <<>>) =>
                     (r.err = ENOTEMPTY /\ r.fs = FS)
        /\ CanEmpty(FS)

\* The first step of a bottom-up removal: a node below a directory d1 was
\* removed, and d1, still in the table, is now empty.
C15_Witness ==
    /\ last.op \in Removes
    /\ last.err = OK
    /\ last.ino # ROOT_INODE
    /\ last.ino \in Live
    /\ Children(last.ino) = <<>>

\* The tables after two create requests of name n under parent p, from the
\* tables fs, and the inode number of the second node.
Twice(fs, p, n) ==
    LET a1 == create(fs, p, n, S_IFREG + 438, CtxUid, CtxGid, CtxUmask, 5)
        a2 == create(a1.fs, p, n, S_IFREG + 438, CtxUid, CtxGid, CtxUmask, 5)
    IN [fs |-> a2.fs, first |-> a1.attr.st_ino, second |-> a2.attr.st_ino]

\* The nodes of fs that have an older sibling of their own name under their
\* parent.
Shadowed(fs) ==
    {j \in DOMAIN fs.inode_data :
        \E i \in DOMAIN fs.inode_data :
            /\ i < j
            /\ fs.inode_data[i].parent_inode = fs.inode_data[j].parent_inode
            /\ fs.inode_data[i].name = fs.inode_data[j].name}

\* C16 as stated: after two create requests with the same parent and name,
\* a lookup or a remove of that name under that parent never resolves to
\* the second node, in the state they leave and in every state a later
\* remove request leads to.
C16_SecondNeverResolved ==
    last = Idle =>
    \A p \in Live, n \in Names :
        LET two == Twice(FS, p, n) IN
        /\ _get_inode_by_name(two.fs, p, n).ret # two.second
        /\ \A op \in Removes, q \in DOMAIN two.fs.inode_data, m \in Names :
              _get_inode_by_name(Remove(two.fs, op, q, m).fs, p, n).ret # two.second

\* C16, amended: a node is unreachable by name as long as an older sibling
\* of its name is in its parent's child list. In any state between two
\* requests, also the one two create requests of one name leave, a lookup
\* does not return such a node and a remove does not take it out of the
\* table; once the older siblings of that name are removed, the name
\* resolves to it.
C16_ShadowedWhileOlderSibling ==
    last = Idle =>
    \A p \in Live, n \in Names :
        /\ \A fs \in {FS, Twice(FS, p, n).fs} :
              \A q \in DOMAIN fs.inode_data, m \in Names :
                  /\ LET l == lookup(fs, q, m)
                     IN l.err = OK => l.attr.st_ino \notin Shadowed(fs)
                  /\ \A op \in Removes :
                        Shadowed(fs) \subseteq DOMAIN Remove(fs, op, q, m).fs.inode_data
        /\ LET two == Twice(FS, p, n)
               older == {i \in DOMAIN two.fs.inode_data :
                            /\ i < two.second
                            /\ two.fs.inode_data[i].parent_inode = p
                            /\ two.fs.inode_data[i].name = n}
           IN /\ two.second \in Shadowed(two.fs)
              /\ Cardinality(older) = 1 =>
                    \A op \in Removes :
                        lookup(Remove(two.fs, op, p, n).fs, p, n).attr.st_ino = two.second

\* A lookup has just returned the older of two siblings of one name.
C16_Witness ==
    /\ last.op = "lookup"
    /\ last.err = OK
    /\ \E j \in Live :
          /\ j > last.attr.st_ino
          /\ j \in Shadowed(FS)
          /\ inode_data[j].parent_inode = last.ino
          /\ inode_data[j].name = last.name

\* C17: ENOTEMPTY is an error of directories only. A remove request refused
\* with ENOTEMPTY had resolved to a directory; the removal of a node created
\* as a regular file is never refused with ENOTEMPTY. (Without a setattr the
\* mode of a node is the one it was created with.)
C17_NotEmptyOnlyDirectory ==
    (last.op \in Removes /\ last.err = ENOTEMPTY /\ n_setattr = 0) =>
        LET target == get_child(inode_data, last.ino, last.name)
        IN BitAnd(inode_data[target].attr.st_mode, S_IFDIR) = S_IFDIR

\* The attribute each flag of the field mask stands for.
FieldOf ==
    [u \in AllFields |->
        CASE u = "update_atime" -> "st_atime_ns"
          [] u = "update_mtime" -> "st_mtime_ns"
          [] u = "update_ctime" -> "st_ctime_ns"
          [] u = "update_mode" -> "st_mode"
          [] u = "update_uid" -> "st_uid"
          [] u = "update_gid" -> "st_gid"
          [] u = "update_size" -> "st_size"]

\* C18: selective attribute update. In any state between two requests and
\* for every field mask, setattr on a node of the table succeeds, gives each
\* flagged attribute the supplied value, and leaves as they were the node's
\* other attributes, its name and links, every other node, the handle table
\* and both counters; it returns the node's attributes. On an inode that is
\* not in the table it fails with ENOENT and changes nothing.
C18_SelectiveSetattr ==
    last = Idle =>
    \A inode \in InodeArgs, attr \in AttrArgs, fields \in SUBSET AllFields :
        LET r == setattr(FS, inode, attr, fields) IN
        IF inode \in Live
        THEN LET old == inode_data[inode].attr
                 new == r.fs.inode_data[inode].attr
             IN /\ r.err = OK
                /\ DOMAIN new = DOMAIN old
                /\ \A f \in DOMAIN old :
                      new[f] = IF \E u \in fields : FieldOf[u] = f
                               THEN attr[f] ELSE old[f]
                /\ r.attr = new
                /\ r.fs.inode_data = [inode_data EXCEPT ![inode].attr = new]
                /\ r.fs.file_handle_inode = file_handle_inode
                /\ r.fs.free_inode = free_inode
                /\ r.fs.free_file_handle = free_file_handle
        ELSE r.err = ENOENT /\ r.fs = FS

\* A setattr flagged for the size alone has set the size of a node and left
\* its mode and its times as they were at its creation.
C18_Witness ==
    /\ last.op = "setattr"
    /\ last.err = OK
    /\ last.fields = {"update_size"}
    /\ last.ino # ROOT_INODE
    /\ inode_data[last.ino].attr.st_size = 3
    /\ inode_data[last.ino].attr.st_mode # S_IFREG + 384
    /\ inode_data[last.ino].attr.st_ctime_ns = 5

\* C19: one readdir call. In any state between two requests, on a handle
\* whose directory has n children, with cursor c and a caller that accepts
\* `room` entries: when 0 <= c < n the call reports the children at the
\* indices c, c + 1, ... of the child list, in that order, each with its
\* index + 1 as resume offset, and stops at the first entry the caller
\* refuses; when c >= n or c < 0 it reports no entry. It succeeds in both
\* cases and changes nothing.
C19_SingleReaddir ==
    last = Idle =>
    \A fh \in DOMAIN file_handle_inode, c \in StartArgs, room \in RoomArgs :
        file_handle_inode[fh] \in Live =>
            LET kids == Children(file_handle_inode[fh])
                n == Len(kids)
                r == readdir(FS, fh, c, room)
                accepted == Len(r.entries)
            IN /\ r.err = OK
               /\ r.fs = FS
               /\ IF 0 <= c /\ c < n
                  THEN /\ accepted = Min({room, n - c})
                       /\ \A j \in 1..accepted :
                             LET index == c + j - 1 IN
                             /\ r.entries[j].st_ino = kids[index + 1]
                             /\ r.entries[j].name = inode_data[kids[index + 1]].name
                             /\ r.entries[j].next_id = index + 1
                       /\ r.offered = IF n - c > room THEN accepted + 1 ELSE accepted
                  ELSE r.entries = <<>> /\ r.offered = 0

\* A readdir with a negative cursor on a directory that has a child has
\* reported nothing, without error.
C19_Witness ==
    /\ last.op = "readdir"
    /\ last.err = OK
    /\ last.start_id < 0
    /\ last.room > 0
    /\ last.entries = <<>>
    /\ last.fh \in DOMAIN file_handle_inode
    /\ file_handle_inode[last.fh] \in Live
    /\ Children(file_handle_inode[last.fh]) # <<>>

\* The children of p in the tables fs that bear the name n.
Named(fs, p, n) ==
    {i \in Range(fs.inode_data[p].child_inodes) : fs.inode_data[i].name = n}

\* In the tables fs, lookup of n under p returns the earliest-created child
\* of that name (the one with the lowest inode number) when there is one,
\* and a remove of n under p that succeeds takes exactly that node away:
\* its same-named siblings stay in the table and in the child list.
FirstOfName(fs, p, n) ==
    LET l == lookup(fs, p, n) IN
    IF Named(fs, p, n) = {} THEN l.err = ENOENT
    ELSE /\ l.err = OK
         /\ l.attr.st_ino = Min(Named(fs, p, n))
         /\ \A op \in Removes :
               LET r == Remove(fs, op, p, n) IN
               r.err = OK =>
                   /\ DOMAIN r.fs.inode_data =
                          DOMAIN fs.inode_data \ {Min(Named(fs, p, n))}
                   /\ Named(r.fs, p, n) = Named(fs, p, n) \ {Min(Named(fs, p, n))}

\* C20: duplicate names coexist. In any state between two requests, for
\* every parent in the table and every name: two creations (create or
\* mkdir, in any combination) of that name under that parent both succeed
\* and give two nodes with different inode numbers, both in the parent's
\* child list; a lookup of the name returns the earliest-created child of
\* that name still present, and a remove of the name removes exactly that
\* node and not its same-named sibling. The same holds of the names of the
\* present tables.
C20_DuplicateNames ==
    last = Idle =>
    \A p \in Live, n \in Names :
        /\ FirstOfName(FS, p, n)
        /\ \A h1 \in Creates, h2 \in Creates :
              LET add(fs, h) ==
                      IF h = "create"
                      THEN create(fs, p, n, S_IFREG + 438, CtxUid, CtxGid, CtxUmask, 5)
                      ELSE mkdir(fs, p, n, S_IFDIR + 511, CtxUid, CtxGid, CtxUmask, 5)
                  a1 == add(FS, h1)
                  a2 == add(a1.fs, h2)
              IN /\ a1.err = OK
                 /\ a2.err = OK
                 /\ a1.attr.st_ino # a2.attr.st_ino
                 /\ {a1.attr.st_ino, a2.attr.st_ino} \subseteq Named(a2.fs, p, n)
                 /\ Named(a2.fs, p, n) = Named(FS, p, n) \cup
                                             {a1.attr.st_ino, a2.attr.st_ino}
                 /\ FirstOfName(a2.fs, p, n)

\* A remove by name has taken one node away and the name still resolves,
\* to the same-named sibling that was created after it.
C20_Witness ==
    /\ last.op \in Removes
    /\ last.err = OK
    /\ get_child(inode_data, last.ino, last.name) # None
    /\ get_child(inode_data, last.ino, last.name) = free_inode - 1

\* C21: a stale handle never aliases another node. On every step, each
\* handle that stays open keeps the inode number it was bound to; when that
\* number is in the node table before and after the step it denotes the same
\* node (same name under the same parent), and when it is absent from the
\* table it stays absent: no creation brings it back for another node. A
\* handle that is opened is bound to a node that is in the table.
C21_StaleHandleNoAlias ==
    [][/\ \A h \in DOMAIN file_handle_inode \cap DOMAIN file_handle_inode' :
            LET i == file_handle_inode[h] IN
            /\ file_handle_inode'[h] = i
            /\ i \notin Live => i \notin Live'
            /\ (i \in Live /\ i \in Live') =>
                  /\ inode_data'[i].name = inode_data[i].name
                  /\ inode_data'[i].parent_inode = inode_data[i].parent_inode
                  /\ inode_data'[i].attr.st_ino = i
       /\ \A h \in DOMAIN file_handle_inode' \ DOMAIN file_handle_inode :
            file_handle_inode'[h] \in Live']_vars

\* A node was created while a handle on a removed node is still open: the
\* new node got another inode number than the one the handle holds.
C21_Witness ==
    /\ last.op \in Creates
    /\ last.err = OK
    /\ \E h \in DOMAIN file_handle_inode :
          /\ file_handle_inode[h] \notin Live
          /\ file_handle_inode[h] < last.attr.st_ino

\* The calls of one listing of the directory behind handle fh, from start_id
\* pos on, with creations in between: before call k, calls[k].adds children
\* of the given name are created in that directory (mkdir); the call has room for
\* calls[k].room entries and the next call starts at the next_id of the last
\* entry accepted.
\* got: the inode numbers delivered; fs: the tables at the last call;
\* eof: the last call ended with no entry refused.
RECURSIVE ListingAppend(_, _, _, _, _)
ListingAppend(fs, fh, pos, calls, name) ==
    IF calls = <<>> THEN [got |-> <<>>, pos |-> pos, eof |-> FALSE, fs |-> fs]
    ELSE LET c == Head(calls)
             grown == IF c.adds = 0 THEN fs
                      ELSE mkdir(fs, fs.file_handle_inode[fh], name, S_IFDIR + 511,
                                 CtxUid, CtxGid, CtxUmask, 5).fs
             r == readdir(grown, fh, pos, c.room)
             n == Len(r.entries)
             more == ListingAppend(grown, fh,
                                   IF n = 0 THEN pos ELSE r.entries[n].next_id,
                                   Tail(calls), name)
         IN [got |-> [j \in 1..n |-> r.entries[j].st_ino] \o more.got,
             pos |-> more.pos,
             eof |-> IF Tail(calls) = <<>> THEN r.offered = n ELSE more.eof,
             fs |-> more.fs]

\* A call of a listing with what precedes it: the number of children created
\* since the call before, and the room of the call.
AppendCalls == [adds : 0..1, room : RoomArgs]
AppendSeqs == UNION {[1..k -> AppendCalls] : k \in ListingCalls}

\* C22: listing under append-only mutation. From any state between two
\* requests, on a handle whose directory is in the table: a listing that
\* starts at 0 and resumes at the returned next_id, while children are
\* created in the directory between its calls and none is removed, delivers
\* the children in creation order, none skipped and none twice: what was
\* delivered is the first pos children of the directory as it is at the
\* last call, with growing inode numbers, and all of them when the last
\* call ended with no refusal. The children present at the start keep their
\* places.
C22_ListingUnderAppend ==
    last = Idle =>
    \A fh \in DOMAIN file_handle_inode :
        file_handle_inode[fh] \in Live =>
            \A calls \in AppendSeqs, name \in Names :
                LET l == ListingAppend(FS, fh, 0, calls, name)
                    kids == l.fs.inode_data[file_handle_inode[fh]].child_inodes
                    before == Children(file_handle_inode[fh])
                IN /\ SubSeq(kids, 1, Len(before)) = before
                   /\ l.pos = Len(l.got)
                   /\ l.pos <= Len(kids)
                   /\ l.got = SubSeq(kids, 1, l.pos)
                   /\ \A j, k \in 1..Len(l.got) : j < k => l.got[j] < l.got[k]
                   /\ l.eof => l.got = kids

\* A readdir call resumed at cursor 1 has delivered the node created last,
\* the second child of its directory.
C22_Witness ==
    /\ last.op = "readdir"
    /\ last.err = OK
    /\ last.start_id = 1
    /\ Len(last.entries) = 1
    /\ last.entries[1].st_ino = free_inode - 1
    /\ last.entries[1].next_id = 2
    /\ Len(Children(file_handle_inode[last.fh])) = 2

====
